---- MODULE Spec2Model ----
(***************************************************************************)
(* Model of the evaluation harness of the solar PV forecasting starter kit *)
(*   src/submission/competition.py   BaseEvaluator (batch, evaluate)       *)
(*   src/submission/run.py           Evaluator (setup, predict), __main__  *)
(*   src/validate.py                 main                                  *)
(* One behaviour is one process run: a live-mode run (run.py __main__) or  *)
(* a validation run (validate.py main).  The feature file, the variable    *)
(* list and batch size passed to batch() and the outcome of the Predictor  *)
(* are inputs.                                                             *)
(***************************************************************************)
EXTENDS Integers, Sequences, FiniteSets, TLC

\* Bounds of the model
MaxSamples == 4
MaxBatchSize == 3

\* assert sample.shape == (48,)
PredLen == 48

VARIABLES
    mode,         \* "live" (run.py) or "validate" (validate.py)
    fileExists,   \* whether the feature file is on disk
    features,     \* the h5py file: variable name -> length of its series
    variables,    \* the variable list handed to batch()
    batch_size,   \* the batch size handed to batch()
    pc,           \* position of the run
    error,        \* the exception that ended the run, or "none"
    setupCount,   \* number of calls of setup()
    cwd,          \* working directory (validate.py)
    sinkExists,   \* the file <DOXA_STREAMS>/out exists
    sinkOpen,     \* the handle f is open
    buf,          \* chunks written to f and not yet flushed
    disk,         \* chunks of the file out
    featOpen,     \* the h5py.File handle is open
    rng,          \* the range object of batch()'s for loop
    genIdx,       \* position of batch()'s for loop in rng
    batch,        \* the batch last yielded by batch()
    preds,        \* the predictions last yielded by predict()
    row,          \* position of evaluate()'s loop over the samples
    predictions,  \* validate.py's list of prediction batches
    stdout,       \* lines printed by validate.py
    yielded,      \* history: the batches batch() has yielded
    log           \* history: the operations performed, in order

vars == <<mode, fileExists, features, variables, batch_size, pc, error,
          setupCount, cwd, sinkExists, sinkOpen, buf, disk, featOpen, rng,
          genIdx, batch, preds, row, predictions, stdout, yielded, log>>

inputs == <<mode, fileExists, features, variables, batch_size>>

----------------------------------------------------------------------------
\* Inputs

VarNames == {"pv", "hrv", "targets"}

\* the h5py files: any subset of the variables, each series of any length
FeatureSets == UNION {[P -> 0..MaxSamples] : P \in SUBSET VarNames}

\* run.py passes ["pv", "hrv"]; the method is meant to be edited
VarLists == {<<>>, <<"pv", "hrv">>, <<"hrv", "pv">>, <<"pv">>}

\* widths of the vectors a Predictor may return
Widths == {PredLen - 1, PredLen, PredLen + 1}

----------------------------------------------------------------------------
\* Pure functions

Min(a, b) == IF a <= b THEN a ELSE b

\* ceil(a / b) for b > 0
Ceil(a, b) == (a + b - 1) \div b

RECURSIVE SumSeq(_)
SumSeq(s) == IF s = <<>> THEN 0 ELSE Head(s) + SumSeq(Tail(s))

\* Range with the last, partial step left out
RangeFloor(start, stop, step) ==
    [k \in 1..(IF stop > start THEN (stop - start) \div step ELSE 0)
        |-> start + (k - 1) * step]

\* range(start, stop, step) for step > 0, as the sequence of its values
Range(start, stop, step) ==
    [k \in 1..(IF stop > start THEN Ceil(stop - start, step) ELSE 0)
        |-> start + (k - 1) * step]

\* dataset[i : i + n] of a series of length len: the (0-based) rows it holds
Slice(len, i, n) ==
    [k \in 1..(Min(i + n, len) - Min(i, len)) |-> i + k - 1]

\* sizes of the batches batch() yields for a first series of length n
BatchSizes(n, bs) ==
    [k \in 1..Len(Range(0, n, bs)) |-> Len(Slice(n, Range(0, n, bs)[k], bs))]

DigitChars == <<"0", "1", "2", "3", "4", "5", "6", "7", "8", "9">>

\* str(float(x)) for a one-digit whole number x
StrFloat(x) == <<DigitChars[x + 1], ".", "0">>

\* sep.join(parts)
RECURSIVE Join(_, _)
Join(parts, sep) ==
    IF parts = <<>> THEN <<>>
    ELSE IF Len(parts) = 1 THEN parts[1]
    ELSE parts[1] \o sep \o Join(Tail(parts), sep)

\* FormatLine with the last value left out
FormatLineDropLast(sample) ==
    Join([k \in 1..(Len(sample) - 1) |-> StrFloat(sample[k])], <<",">>) \o <<"\n">>

\* the line evaluate() writes for one sample
FormatLine(sample) ==
    Join([k \in 1..Len(sample) |-> StrFloat(sample[k])], <<",">>) \o <<"\n">>

OKLine == <<"O", "K", "\n">>

\* The Predictor's vector for the sample of row i, of width w: a
\* deterministic function of the sample
PredictionOf(i, w) == [k \in 1..w |-> (i + k) % 10]

\* numpy broadcasting of shapes (t, 48) and (p, 48)
Broadcastable(t, p) == t = p \/ t = 1 \/ p = 1

----------------------------------------------------------------------------
\* Exits

Event(op, b, r) == [op |-> op, batch |-> b, row |-> r]

\* An exception raised at the run's position: it leaves evaluate()'s with
\* block when the sink is open (closing f, which writes its buffer out), and
\* validate.py's try block through finally.
Raise(kind, inTry) ==
    /\ pc' = "failed"
    /\ error' = kind
    /\ disk' = IF sinkOpen THEN disk \o buf ELSE disk
    /\ buf' = <<>>
    /\ sinkOpen' = FALSE
    /\ cwd' = IF inTry THEN "orig" ELSE cwd

----------------------------------------------------------------------------
Init ==
    /\ mode \in {"live", "validate"}
    /\ fileExists \in BOOLEAN
    /\ features \in (IF fileExists THEN FeatureSets ELSE {<<>>})
    /\ variables \in VarLists
    /\ batch_size \in 1..MaxBatchSize
    /\ pc = IF mode = "live" THEN "construct" ELSE "open_data"
    /\ error = "none"
    /\ setupCount = 0
    /\ cwd = "orig"
    /\ sinkExists = FALSE
    /\ sinkOpen = FALSE
    /\ buf = <<>>
    /\ disk = <<>>
    /\ featOpen = FALSE
    /\ rng = <<>>
    /\ genIdx = 0
    /\ batch = <<>>
    /\ preds = <<>>
    /\ row = 0
    /\ predictions = <<>>
    /\ stdout = <<>>
    /\ yielded = <<>>
    /\ log = <<>>

----------------------------------------------------------------------------
\* validate.py main, lines 13-21: open the data file, chdir
OpenData ==
    /\ pc = "open_data"
    /\ IF fileExists
       THEN /\ featOpen' = TRUE
            /\ cwd' = "submission"
            /\ pc' = "construct"
            /\ stdout' = stdout
            /\ log' = Append(log, Event("open_features", 0, 0))
       ELSE /\ stdout' = Append(stdout, "Unable to load features")
            /\ pc' = "done"
            /\ UNCHANGED <<featOpen, cwd, log>>
    /\ UNCHANGED <<inputs, error, setupCount, sinkExists, sinkOpen, buf, disk,
                   rng, genIdx, batch, preds, row, predictions, yielded>>

\* Evaluator(): BaseEvaluator.__init__ calls setup(), which loads the model
\* parameters and may fail
Construct ==
    /\ pc = "construct"
    /\ setupCount' = setupCount + 1
    /\ \E ok \in BOOLEAN :
        IF ok
        THEN /\ pc' = IF mode = "live" THEN "open_sink" ELSE "start_batcher"
             /\ log' = Append(log, Event("setup", 0, 0))
             /\ UNCHANGED <<error, disk, buf, sinkOpen, cwd>>
        ELSE /\ Raise("SetupError", mode = "validate")
             /\ log' = log
    /\ UNCHANGED <<inputs, sinkExists, featOpen, rng, genIdx, batch, preds,
                   row, predictions, stdout, yielded>>

\* evaluate(), line 56: open(<DOXA_STREAMS>/out, "w")
OpenSink ==
    /\ pc = "open_sink"
    /\ sinkExists' = TRUE
    /\ sinkOpen' = TRUE
    /\ disk' = <<>>
    /\ buf' = <<>>
    /\ pc' = "write_ok"
    /\ log' = Append(log, Event("open_sink", 0, 0))
    /\ UNCHANGED <<inputs, error, setupCount, cwd, featOpen, rng, genIdx,
                   batch, preds, row, predictions, stdout, yielded>>

\* evaluate(), line 57: f.write("OK\n")
WriteReady ==
    /\ pc = "write_ok"
    /\ buf' = Append(buf, OKLine)
    /\ pc' = "flush_ok"
    /\ log' = Append(log, Event("write_ok", 0, 0))
    /\ UNCHANGED <<inputs, error, setupCount, cwd, sinkExists, sinkOpen, disk,
                   featOpen, rng, genIdx, batch, preds, row, predictions,
                   stdout, yielded>>

\* FlushReady with the flush left out
FlushReadySkipped ==
    /\ pc = "flush_ok"
    /\ pc' = "open_features"
    /\ UNCHANGED <<inputs, error, setupCount, cwd, sinkExists, sinkOpen, buf,
                   disk, featOpen, rng, genIdx, batch, preds, row, predictions,
                   stdout, yielded, log>>

\* evaluate(), line 58: f.flush()
FlushReady ==
    /\ pc = "flush_ok"
    /\ disk' = disk \o buf
    /\ buf' = <<>>
    /\ pc' = "open_features"
    /\ log' = Append(log, Event("flush", 0, 0))
    /\ UNCHANGED <<inputs, error, setupCount, cwd, sinkExists, sinkOpen,
                   featOpen, rng, genIdx, batch, preds, row, predictions,
                   stdout, yielded>>

\* evaluate(), line 60: h5py.File(sys.argv[1], "r"), then predict(features),
\* which only creates the generator
OpenFeatures ==
    /\ pc = "open_features"
    /\ IF fileExists
       THEN /\ featOpen' = TRUE
            /\ pc' = "start_batcher"
            /\ log' = Append(log, Event("open_features", 0, 0))
            /\ UNCHANGED <<error, disk, buf, sinkOpen, cwd>>
       ELSE /\ Raise("InputNotFoundError", FALSE)
            /\ UNCHANGED <<featOpen, log>>
    /\ UNCHANGED <<inputs, setupCount, sinkExists, rng, genIdx, batch, preds,
                   row, predictions, stdout, yielded>>

\* StartBatcher checking only the first requested variable
StartBatcherFirstOnly ==
    /\ pc = "start_batcher"
    /\ IF variables = <<>>
       THEN /\ Raise("ConfigurationError", mode = "validate")
            /\ UNCHANGED <<rng, genIdx>>
            /\ log' = Append(log, Event("check_vars", 0, 0))
       ELSE IF variables[1] \notin DOMAIN features
       THEN /\ Raise("MissingVariableError", mode = "validate")
            /\ UNCHANGED <<rng, genIdx>>
            /\ log' = Append(log, Event("check_vars", 0, 0))
       ELSE /\ rng' = Range(0, features[variables[1]], batch_size)
            /\ genIdx' = 1
            /\ pc' = "slice"
            /\ log' = Append(log, Event("check_vars", 0, 0))
            /\ UNCHANGED <<error, disk, buf, sinkOpen, cwd>>
    /\ UNCHANGED <<inputs, setupCount, sinkExists, featOpen, batch, preds, row,
                   predictions, stdout, yielded>>

\* The first next() of the consumer's loop: predict() calls batch(), whose
\* body runs up to its for loop (lines 42-49)
StartBatcher ==
    /\ pc = "start_batcher"
    /\ IF variables = <<>>
       THEN /\ Raise("ConfigurationError", mode = "validate")
            /\ UNCHANGED <<rng, genIdx>>
            /\ log' = Append(log, Event("check_vars", 0, 0))
       ELSE IF \E k \in 1..Len(variables) : variables[k] \notin DOMAIN features
       THEN /\ Raise("MissingVariableError", mode = "validate")
            /\ UNCHANGED <<rng, genIdx>>
            /\ log' = Append(log, Event("check_vars", 0, 0))
       ELSE /\ rng' = Range(0, features[variables[1]], batch_size)
            /\ genIdx' = 1
            /\ pc' = "slice"
            /\ log' = Append(log, Event("check_vars", 0, 0))
            /\ UNCHANGED <<error, disk, buf, sinkOpen, cwd>>
    /\ UNCHANGED <<inputs, setupCount, sinkExists, featOpen, batch, preds, row,
                   predictions, stdout, yielded>>

\* SliceBatch with setup() run again for every batch
SliceBatchResetup ==
    /\ pc = "slice"
    /\ genIdx <= Len(rng)
    /\ setupCount' = setupCount + 1
    /\ batch' = [v \in 1..Len(variables) |->
                    Slice(features[variables[v]], rng[genIdx], batch_size)]
    /\ yielded' = Append(yielded, batch')
    /\ genIdx' = genIdx + 1
    /\ pc' = "predict"
    /\ log' = log \o <<Event("setup", 0, 0), Event("slice", genIdx, 0)>>
    /\ UNCHANGED <<inputs, error, cwd, sinkExists, sinkOpen, buf, disk,
                   featOpen, rng, preds, row, predictions, stdout>>

\* batch(), lines 49-50: the next window of every requested variable
SliceBatch ==
    /\ pc = "slice"
    /\ genIdx <= Len(rng)
    /\ batch' = [v \in 1..Len(variables) |->
                    Slice(features[variables[v]], rng[genIdx], batch_size)]
    /\ yielded' = Append(yielded, batch')
    /\ genIdx' = genIdx + 1
    /\ pc' = "predict"
    /\ log' = Append(log, Event("slice", genIdx, 0))
    /\ UNCHANGED <<inputs, error, setupCount, cwd, sinkExists, sinkOpen, buf,
                   disk, featOpen, rng, preds, row, predictions, stdout>>

\* batch()'s loop is over: predict() returns and the consumer's loop ends;
\* evaluate() leaves its with block, validate.py its try block
Exhaust ==
    /\ pc = "slice"
    /\ genIdx > Len(rng)
    /\ IF mode = "live"
       THEN /\ disk' = disk \o buf
            /\ buf' = <<>>
            /\ sinkOpen' = FALSE
            /\ pc' = "done"
            /\ cwd' = cwd
            /\ log' = Append(log, Event("close_sink", 0, 0))
       ELSE /\ cwd' = "orig"
            /\ pc' = "mae"
            /\ UNCHANGED <<disk, buf, sinkOpen, log>>
    /\ UNCHANGED <<inputs, error, setupCount, sinkExists, featOpen, rng,
                   genIdx, batch, preds, row, predictions, stdout, yielded>>

\* predict(), lines 38-43: unpack the batch into pv, hrv and call the model,
\* which concatenates the two along the feature axis (model.py line 30) and
\* may fail for its own reasons
Predict ==
    /\ pc = "predict"
    /\ \/ /\ Len(batch) # 2
          /\ Raise("UnpackError", mode = "validate")
          /\ UNCHANGED <<preds, row, log>>
       \/ /\ Len(batch) = 2
          /\ Len(batch[1]) # Len(batch[2])
          /\ Raise("PredictorError", mode = "validate")
          /\ UNCHANGED <<preds, row, log>>
       \/ /\ Len(batch) = 2
          /\ Len(batch[1]) = Len(batch[2])
          /\ Raise("PredictorError", mode = "validate")
          /\ UNCHANGED <<preds, row, log>>
       \/ /\ Len(batch) = 2
          /\ Len(batch[1]) = Len(batch[2])
          /\ \E w \in Widths :
                preds' = [r \in 1..Len(batch[1]) |-> PredictionOf(batch[1][r], w)]
          /\ row' = 1
          /\ pc' = IF mode = "live" THEN "write" ELSE "accumulate"
          /\ log' = Append(log, Event("predict", genIdx - 1, 0))
          /\ UNCHANGED <<error, disk, buf, sinkOpen, cwd>>
    /\ UNCHANGED <<inputs, setupCount, sinkExists, featOpen, rng, genIdx,
                   batch, predictions, stdout, yielded>>

\* WriteSample with a flush after every sample
WriteSampleFlushEach ==
    /\ pc = "write"
    /\ row <= Len(preds)
    /\ IF Len(preds[row]) = PredLen
       THEN /\ disk' = disk \o Append(buf, FormatLine(preds[row]))
            /\ buf' = <<>>
            /\ row' = row + 1
            /\ log' = log \o <<Event("write", genIdx - 1, row),
                               Event("flush", genIdx - 1, 0)>>
            /\ UNCHANGED <<pc, error, sinkOpen, cwd>>
       ELSE /\ Raise("ShapeError", FALSE)
            /\ UNCHANGED <<row, log>>
    /\ UNCHANGED <<inputs, setupCount, sinkExists, featOpen, rng, genIdx,
                   batch, preds, predictions, stdout, yielded>>

\* WriteSample with the line written before its shape is checked
WriteSampleCheckAfter ==
    /\ pc = "write"
    /\ row <= Len(preds)
    /\ IF Len(preds[row]) = PredLen
       THEN /\ buf' = Append(buf, FormatLine(preds[row]))
            /\ row' = row + 1
            /\ log' = Append(log, Event("write", genIdx - 1, row))
            /\ UNCHANGED <<pc, error, disk, sinkOpen, cwd>>
       ELSE /\ pc' = "failed"
            /\ error' = "ShapeError"
            /\ disk' = disk \o Append(buf, FormatLine(preds[row]))
            /\ buf' = <<>>
            /\ sinkOpen' = FALSE
            /\ log' = Append(log, Event("write", genIdx - 1, row))
            /\ UNCHANGED <<row, cwd>>
    /\ UNCHANGED <<inputs, setupCount, sinkExists, featOpen, rng, genIdx,
                   batch, preds, predictions, stdout, yielded>>

\* evaluate(), lines 61-63: one sample of the batch
WriteSample ==
    /\ pc = "write"
    /\ row <= Len(preds)
    /\ IF Len(preds[row]) = PredLen
       THEN /\ buf' = Append(buf, FormatLine(preds[row]))
            /\ row' = row + 1
            /\ log' = Append(log, Event("write", genIdx - 1, row))
            /\ UNCHANGED <<pc, error, disk, sinkOpen, cwd>>
       ELSE /\ Raise("ShapeError", FALSE)
            /\ UNCHANGED <<row, log>>
    /\ UNCHANGED <<inputs, setupCount, sinkExists, featOpen, rng, genIdx,
                   batch, preds, predictions, stdout, yielded>>

\* FlushBatch with the flush left out
FlushBatchNoFlush ==
    /\ pc = "write"
    /\ row > Len(preds)
    /\ pc' = "slice"
    /\ UNCHANGED <<inputs, error, setupCount, cwd, sinkExists, sinkOpen, buf,
                   disk, featOpen, rng, genIdx, batch, preds, row, predictions,
                   stdout, yielded, log>>

\* evaluate(), line 65: f.flush() after the batch's samples
FlushBatch ==
    /\ pc = "write"
    /\ row > Len(preds)
    /\ disk' = disk \o buf
    /\ buf' = <<>>
    /\ pc' = "slice"
    /\ log' = Append(log, Event("flush", genIdx - 1, 0))
    /\ UNCHANGED <<inputs, error, setupCount, cwd, sinkExists, sinkOpen,
                   featOpen, rng, genIdx, batch, preds, row, predictions,
                   stdout, yielded>>

\* validate.py, lines 29-30: check the batch's last axis, keep the batch
Accumulate ==
    /\ pc = "accumulate"
    /\ IF \A r \in 1..Len(preds) : Len(preds[r]) = PredLen
       THEN /\ predictions' = Append(predictions, preds)
            /\ pc' = "slice"
            /\ log' = Append(log, Event("accumulate", genIdx - 1, 0))
            /\ UNCHANGED <<error, disk, buf, sinkOpen, cwd>>
       ELSE /\ Raise("ShapeError", TRUE)
            /\ UNCHANGED <<predictions, log>>
    /\ UNCHANGED <<inputs, setupCount, sinkExists, featOpen, rng, genIdx,
                   batch, preds, row, stdout, yielded>>

\* number of rows of np.concatenate(predictions)
PredictionRows == SumSeq([k \in 1..Len(predictions) |-> Len(predictions[k])])

\* validate.py, lines 35-36: the mean absolute error
ComputeMAE ==
    /\ pc = "mae"
    /\ IF "targets" \notin DOMAIN features
       THEN /\ Raise("KeyError", FALSE)
            /\ stdout' = stdout
       ELSE IF predictions = <<>>
       THEN /\ Raise("ConcatenateError", FALSE)
            /\ stdout' = stdout
       ELSE IF ~Broadcastable(features["targets"], PredictionRows)
       THEN /\ Raise("ShapeMismatchError", FALSE)
            /\ stdout' = stdout
       ELSE /\ stdout' = Append(stdout, "MAE")
            /\ pc' = "done"
            /\ UNCHANGED <<error, disk, buf, sinkOpen, cwd>>
    /\ log' = Append(log, Event("mae", 0, 0))
    /\ UNCHANGED <<inputs, setupCount, sinkExists, featOpen, rng, genIdx,
                   batch, preds, row, predictions, yielded>>

Next ==
    \/ OpenData
    \/ Construct
    \/ OpenSink
    \/ WriteReady
    \/ FlushReady
    \/ OpenFeatures
    \/ StartBatcher
    \/ SliceBatch
    \/ Exhaust
    \/ Predict
    \/ WriteSample
    \/ FlushBatch
    \/ Accumulate
    \/ ComputeMAE

Spec == Init /\ [][Next]_vars

----------------------------------------------------------------------------
\* Reading the history and the sink

\* positions of the history that hold operation op of batch b
Positions(op, b) == {p \in 1..Len(log) : log[p].op = op /\ log[p].batch = b}

OpPositions(op) == {p \in 1..Len(log) : log[p].op = op}

\* s.split(sep) of a sequence of characters
RECURSIVE Split(_, _)
Split(s, sep) ==
    IF \A i \in 1..Len(s) : s[i] # sep
    THEN <<s>>
    ELSE LET i == CHOOSE j \in 1..Len(s) :
                      s[j] = sep /\ \A h \in 1..(j - 1) : s[h] # sep
         IN  <<SubSeq(s, 1, i - 1)>> \o Split(SubSeq(s, i + 1, Len(s)), sep)

\* the fields of a line of the sink, its line end taken off
Fields(line) == Split(SubSeq(line, 1, Len(line) - 1), ",")

\* the line of the sample of row i (0-based) of the feature file
ExpectedLine(i) == FormatLine(PredictionOf(i, PredLen))

\* the sink after the readiness line and the lines of the first n samples
ExpectedSink(n) == <<OKLine>> \o [j \in 1..n |-> ExpectedLine(j - 1)]

\* rows of the k-th batch yielded (of its first variable)
RowsOf(k) == Len(yielded[k][1])

Ended == pc \in {"done", "failed"}

----------------------------------------------------------------------------
\* C1: in a live-mode run the readiness line is written and flushed before
\* any prediction line is written, and after that the sink is flushed exactly
\* once per batch, after all of the batch's lines and never between two
\* samples of one batch.
C1_FlushDiscipline ==
    mode = "live" =>
        /\ \A p \in OpPositions("write") :
              \E q \in Positions("flush", 0) :
                  /\ q < p
                  /\ \E o \in OpPositions("write_ok") : o < q
        /\ Cardinality(Positions("flush", 0)) <= 1
        /\ (\E i \in 1..Len(disk \o buf) : (disk \o buf)[i] # OKLine)
              => (disk # <<>> /\ disk[1] = OKLine)
        /\ \A k \in 1..Len(yielded) :
              /\ Cardinality(Positions("flush", k)) <= 1
              /\ \A f \in Positions("flush", k) :
                    /\ Cardinality({p \in Positions("write", k) : p < f}) = RowsOf(k)
                    /\ \A p \in Positions("write", k) : p < f
              /\ \A p, q \in Positions("write", k) :
                    \A f \in OpPositions("flush") : ~(p < f /\ f < q)
              /\ (k < Len(yielded) \/ pc = "done")
                    => Cardinality(Positions("flush", k)) = 1

C1_Witness ==
    /\ mode = "live"
    /\ pc = "done"
    /\ Len(yielded) >= 2
    /\ RowsOf(1) >= 2
    /\ Cardinality(OpPositions("flush")) = Len(yielded) + 1

\* C2: for a FeatureSet whose requested series all have N samples, batch()
\* yields ceil(N / batch_size) batches whose sizes sum to N, all but the last
\* of exactly batch_size rows (none for N = 0; 32, 32, 32, 4 for N = 100 and
\* batch_size = 32).
C2_BatchCount ==
    (genIdx >= 1 /\ (\A v \in 1..Len(variables) :
                           features[variables[v]] = features[variables[1]]))
        => LET N == features[variables[1]]
               sizes == [k \in 1..Len(yielded) |-> RowsOf(k)]
           IN  /\ \A k \in 1..Len(yielded) :
                     \A v \in 1..Len(variables) : Len(yielded[k][v]) = RowsOf(k)
               /\ \A k \in 1..Len(yielded) :
                     k < Ceil(N, batch_size) => sizes[k] = batch_size
               /\ Len(yielded) <= Ceil(N, batch_size)
               /\ genIdx > Len(rng) =>
                     /\ Len(yielded) = Ceil(N, batch_size)
                     /\ SumSeq(sizes) = N
                     /\ sizes = BatchSizes(N, batch_size)
                     /\ (N = 0 => yielded = <<>>)
                     /\ BatchSizes(100, 32) = <<32, 32, 32, 4>>

C2_Witness ==
    /\ genIdx > Len(rng)
    /\ Len(variables) = 2
    /\ features[variables[1]] = MaxSamples
    /\ features[variables[2]] = MaxSamples
    /\ batch_size = MaxBatchSize
    /\ Len(yielded) = Ceil(MaxSamples, MaxBatchSize)
    /\ RowsOf(Len(yielded)) < batch_size

\* C3: in live mode a prediction vector whose length is not 48 ends the run
\* with a ShapeError: the sink holds no line, whole or partial, of that
\* sample or of a later one, and it still holds every line of the batches
\* flushed before.
C3_ShapeErrorAborts ==
    (mode = "live" /\ error = "ShapeError") =>
        /\ pc = "failed"
        /\ ~sinkOpen
        /\ buf = <<>>
        /\ \E r \in 1..Len(preds) : Len(preds[r]) # PredLen
        /\ disk = ExpectedSink(rng[genIdx - 1] + row - 1)
        /\ \A i \in 2..Len(disk) : Len(Fields(disk[i])) = PredLen
        /\ Cardinality(OpPositions("write")) = rng[genIdx - 1] + row - 1
        /\ \A k \in 1..(genIdx - 2) : Cardinality(Positions("flush", k)) = 1

C3_Witness ==
    /\ mode = "live"
    /\ error = "ShapeError"
    /\ genIdx - 1 >= 2
    /\ Len(disk) = 1 + RowsOf(1)
    /\ RowsOf(1) >= 2

\* C4: when the requested variable list is empty, or holds a name that is
\* absent from the FeatureSet (at any position, the other names present or
\* not), batch() fails before it yields a batch: ConfigurationError for the
\* empty list, MissingVariableError for an absent name.
C4_BadVariablesFailFirst ==
    LET absent == \E k \in 1..Len(variables) : variables[k] \notin DOMAIN features
    IN  /\ (yielded # <<>> \/ OpPositions("slice") # {} \/ genIdx >= 1)
            => variables # <<>> /\ ~absent
        /\ (OpPositions("check_vars") # {} /\ variables = <<>>)
            => pc = "failed" /\ error = "ConfigurationError"
        /\ (OpPositions("check_vars") # {} /\ absent)
            => pc = "failed" /\ error = "MissingVariableError"

C4_Witness ==
    /\ error = "MissingVariableError"
    /\ Len(variables) = 2
    /\ variables[1] \in DOMAIN features
    /\ features[variables[1]] > 0
    /\ variables[2] \notin DOMAIN features
    /\ yielded = <<>>

\* C5: after a live-mode run over N samples that completes normally the sink
\* holds the line OK followed by exactly N prediction lines, the j-th being
\* the prediction of the j-th sample read, each of exactly 48 comma-separated
\* fields.
C5_SinkContents ==
    (mode = "live" /\ pc = "done") =>
        LET N == features[variables[1]]
        IN  /\ Len(disk) = N + 1
            /\ disk[1] = OKLine
            /\ \A j \in 1..N :
                  /\ disk[j + 1] = ExpectedLine(j - 1)
                  /\ Len(Fields(disk[j + 1])) = PredLen
                  /\ \A k \in 1..PredLen :
                        Fields(disk[j + 1])[k] = StrFloat(PredictionOf(j - 1, PredLen)[k])
            /\ buf = <<>>

C5_Witness ==
    /\ mode = "live"
    /\ pc = "done"
    /\ features[variables[1]] = MaxSamples
    /\ Len(yielded) >= 2
    /\ Len(disk) = MaxSamples + 1

\* C6: in every run, live or validation, the feature source handle and the
\* output sink handle the run opened are released by the time the run ends,
\* on normal completion and on every error path.
C6_HandlesReleased ==
    Ended => ~sinkOpen /\ ~featOpen

C8_MismatchFails ==
    (/\ mode = "validate"
     /\ OpPositions("mae") # {}
     /\ "targets" \in DOMAIN features
     /\ features["targets"] # PredictionRows)
        => /\ error \in {"ShapeMismatchError", "ConcatenateError"}
           /\ \A i \in 1..Len(stdout) : stdout[i] # "MAE"

\* C9: in a live-mode run batches are pulled one at a time: batch k+1 is not
\* sliced and not predicted until every line of batch k is written and the
\* sink flushed; the run never holds more than one unwritten batch.
C9_OneBatchAtATime ==
    mode = "live" =>
        /\ \A k \in 2..Len(yielded) :
              \A p \in Positions("slice", k) \cup Positions("predict", k) :
                  \E f \in Positions("flush", k - 1) :
                      /\ f < p
                      /\ Cardinality({w \in Positions("write", k - 1) : w < f})
                            = RowsOf(k - 1)
        /\ \A k \in 1..Len(yielded) :
              \A p \in Positions("predict", k) :
                  \E q \in Positions("slice", k) : q < p
        /\ Len(yielded) - Cardinality({k \in 1..Len(yielded) :
                                          Positions("flush", k) # {}}) <= 1
        /\ pc = "predict" =>
              /\ buf = <<>>
              /\ disk = ExpectedSink(rng[genIdx - 1])

C9_Witness ==
    /\ mode = "live"
    /\ pc = "predict"
    /\ Len(yielded) = 2
    /\ RowsOf(1) >= 2
    /\ Len(disk) = 1 + RowsOf(1)

\* C10: in live mode the feature file is opened and batch()'s checks of the
\* variable list run only after the readiness line is written and flushed; a
\* run that fails on a missing input file, an empty variable list or an
\* absent variable leaves a sink holding exactly the line OK.
C10_ReadyBeforeInput ==
    mode = "live" =>
        /\ \A p \in OpPositions("open_features") \cup OpPositions("check_vars") :
              \E f \in Positions("flush", 0) :
                  /\ f < p
                  /\ \E o \in OpPositions("write_ok") : o < f
        /\ (featOpen \/ OpPositions("check_vars") # {}) =>
              disk # <<>> /\ disk[1] = OKLine
        /\ error \in {"InputNotFoundError", "ConfigurationError",
                      "MissingVariableError"} =>
              /\ sinkExists
              /\ ~sinkOpen
              /\ disk = <<OKLine>>
              /\ buf = <<>>

C10_Witness ==
    /\ mode = "live"
    /\ error = "InputNotFoundError"
    /\ ~fileExists
    /\ sinkExists
    /\ disk = <<OKLine>>

====
